---------------------------- MODULE Spec2Model ----------------------------
(***************************************************************************)
(* Model of src/api/receipt_api.py: the /api/generate-receipt handler, the *)
(* two receipt builders (build_receipt_image, build_receipt_pdf), each a   *)
(* measure pass followed by a commit pass, and the ESC/POS print path.     *)
(*                                                                         *)
(* Numbers.  A JSON number is a record of kind "int" or "float" whose v is *)
(* the value in hundredths (12.35 is 1235), so two-decimal formatting is   *)
(* exact.  Raster lengths are pixels.  PDF lengths are in units of 1/127   *)
(* point, in which reportlab's mm (72/25.4 pt) is the integer 360 and a    *)
(* point is 127, so page arithmetic is exact (float rounding is not        *)
(* modelled).                                                              *)
(***************************************************************************)
EXTENDS Integers, Sequences, FiniteSets, TLC

VARIABLES payload, mode, pc, meas, final, printer, exc, response, prior

vars == <<payload, mode, pc, meas, final, printer, exc, response, prior>>

-----------------------------------------------------------------------------
(* JSON values as Python sees them after json.loads. *)

Missing == [k |-> "missing", v |-> 0, s |-> ""]
Null == [k |-> "null", v |-> 0, s |-> ""]
IntV(n) == [k |-> "int", v |-> n * 100, s |-> ""]
FltV(h) == [k |-> "float", v |-> h, s |-> ""]
StrV(t) == [k |-> "str", v |-> 0, s |-> t]

IsNum(x) == x.k \in {"int", "float"}

\* dict.get(key, default): the default only replaces an absent key; a key
\* present with JSON null yields None.
Get(x, default) == IF x.k = "missing" THEN default ELSE x

\* Python truthiness of a scalar JSON value.
Truthy(x) ==
    CASE x.k \in {"missing", "null"} -> FALSE
      [] IsNum(x) -> x.v # 0
      [] x.k = "str" -> x.s # ""
      [] OTHER -> TRUE

-----------------------------------------------------------------------------
(* Strings: decimal digits, str(), "%.2f" and float(). *)

Abs(n) == IF n < 0 THEN -n ELSE n

TwoDigits(n) == IF n < 10 THEN "0" \o ToString(n) ELSE ToString(n)

\* "%.2f" % x for x given in hundredths.
Fmt2(h) ==
    (IF h < 0 THEN "-" ELSE "") \o ToString(Abs(h) \div 100) \o "."
        \o TwoDigits(Abs(h) % 100)

\* repr of a float given in hundredths: 2.0, 2.5, 2.55
FloatRepr(h) ==
    (IF h < 0 THEN "-" ELSE "") \o ToString(Abs(h) \div 100) \o "."
        \o (IF Abs(h) % 10 = 0 THEN ToString((Abs(h) % 100) \div 10)
            ELSE TwoDigits(Abs(h) % 100))

\* str(x)
PyStr(x) ==
    CASE x.k = "int" -> ToString(x.v \div 100)
      [] x.k = "float" -> FloatRepr(x.v)
      [] x.k = "str" -> x.s
      [] OTHER -> "None"

DigitChars == {"0", "1", "2", "3", "4", "5", "6", "7", "8", "9"}

DigitVal(c) ==
    CASE c = "0" -> 0 [] c = "1" -> 1 [] c = "2" -> 2 [] c = "3" -> 3
      [] c = "4" -> 4 [] c = "5" -> 5 [] c = "6" -> 6 [] c = "7" -> 7
      [] c = "8" -> 8 [] c = "9" -> 9

AllDigits(t) ==
    /\ Len(t) > 0
    /\ \A i \in 1..Len(t) : SubSeq(t, i, i) \in DigitChars

RECURSIVE DigitsVal(_)
DigitsVal(t) ==
    IF Len(t) = 0 THEN 0
    ELSE 10 * DigitsVal(SubSeq(t, 1, Len(t) - 1)) + DigitVal(SubSeq(t, Len(t), Len(t)))

DotAt(t) ==
    IF \E i \in 1..Len(t) : SubSeq(t, i, i) = "."
    THEN CHOOSE i \in 1..Len(t) :
             /\ SubSeq(t, i, i) = "."
             /\ \A j \in 1..(i - 1) : SubSeq(t, j, j) # "."
    ELSE 0

\* float(t) for a string: the plain decimal forms [-]ddd[.d[d]] convert, every
\* other string raises ValueError.  Result: [ok, v] with v in hundredths.
ParseUnsigned(t) ==
    LET d == DotAt(t) IN
    IF d = 0
    THEN IF AllDigits(t) THEN [ok |-> TRUE, v |-> 100 * DigitsVal(t)]
         ELSE [ok |-> FALSE, v |-> 0]
    ELSE LET w == SubSeq(t, 1, d - 1)
             f == SubSeq(t, d + 1, Len(t))
         IN  IF AllDigits(w) /\ AllDigits(f) /\ Len(f) <= 2
             THEN [ok |-> TRUE,
                   v |-> 100 * DigitsVal(w)
                         + (IF Len(f) = 1 THEN 10 * DigitsVal(f) ELSE DigitsVal(f))]
             ELSE [ok |-> FALSE, v |-> 0]

ParseFloat(t) ==
    IF Len(t) > 0 /\ SubSeq(t, 1, 1) = "-"
    THEN LET r == ParseUnsigned(SubSeq(t, 2, Len(t))) IN [ok |-> r.ok, v |-> -r.v]
    ELSE ParseUnsigned(t)

\* float(x): [ok, v]; not ok when Python raises (TypeError on None,
\* ValueError on a non-numeric string).
ToFloat(x) ==
    CASE IsNum(x) -> [ok |-> TRUE, v |-> x.v]
      [] x.k = "str" -> ParseFloat(x.s)
      [] OTHER -> [ok |-> FALSE, v |-> 0]

-----------------------------------------------------------------------------
(* Python arithmetic on JSON values: [ok, val], not ok when Python raises. *)

RECURSIVE Repeat(_, _)
Repeat(t, n) == IF n <= 0 THEN "" ELSE t \o Repeat(t, n - 1)

Raised == [ok |-> FALSE, val |-> Null]

\* a * b (line 183 / 405): numbers multiply, str * int repeats the string,
\* anything else (None, str * float, str * str) raises TypeError.
Mul(a, b) ==
    CASE IsNum(a) /\ IsNum(b) ->
             [ok |-> TRUE,
              val |-> [k |-> IF a.k = "int" /\ b.k = "int" THEN "int" ELSE "float",
                       v |-> (a.v * b.v) \div 100, s |-> ""]]
      [] a.k = "str" /\ b.k = "int" ->
             [ok |-> TRUE, val |-> StrV(Repeat(a.s, b.v \div 100))]
      [] a.k = "int" /\ b.k = "str" ->
             [ok |-> TRUE, val |-> StrV(Repeat(b.s, a.v \div 100))]
      [] OTHER -> Raised

\* acc + x for a numeric accumulator acc (line 427): a number adds, a string
\* or None raises TypeError.
Add(acc, x) ==
    IF IsNum(x)
    THEN [ok |-> TRUE,
          val |-> [k |-> IF acc.k = "int" /\ x.k = "int" THEN "int" ELSE "float",
                   v |-> acc.v + x.v, s |-> ""]]
    ELSE Raised

\* f"{x:.2f}" (line 184 / 406): only a number accepts the format code.
FormatSpec2f(x) == IF IsNum(x) THEN [ok |-> TRUE, s |-> Fmt2(x.v)]
                   ELSE [ok |-> FALSE, s |-> ""]

UpperChar(c) ==
    CASE c = "a" -> "A" [] c = "c" -> "C" [] c = "d" -> "D" [] c = "e" -> "E"
      [] c = "h" -> "H" [] c = "n" -> "N" [] c = "o" -> "O" [] c = "r" -> "R"
      [] c = "s" -> "S" [] OTHER -> c

\* str.upper() over the letters the modelled strings use.
RECURSIVE Upper(_)
Upper(t) ==
    IF Len(t) = 0 THEN ""
    ELSE UpperChar(SubSeq(t, 1, 1)) \o Upper(SubSeq(t, 2, Len(t)))

LowerChar(c) ==
    CASE c = "P" -> "p" [] c = "D" -> "d" [] c = "F" -> "f" [] OTHER -> c

\* str.lower() over the letters the modelled mode strings use.
RECURSIVE Lower(_)
Lower(t) ==
    IF Len(t) = 0 THEN ""
    ELSE LowerChar(SubSeq(t, 1, 1)) \o Lower(SubSeq(t, 2, Len(t)))

\* _fmt_amount of build_receipt_image
img_fmt_amount(val) ==
    LET f == ToFloat(val) IN IF f.ok THEN Fmt2(f.v) \o " AED" ELSE "0.00 AED"

\* fmt_amount, used by build_receipt_pdf
fmt_amount(val) ==
    LET f == ToFloat(val) IN IF f.ok THEN Fmt2(f.v) \o " AED" ELSE "0.00 AED"

Max(a, b) == IF a >= b THEN a ELSE b

-----------------------------------------------------------------------------
(* Drawing.  A builder is a straight run of statements `draw at the cursor  *)
(* y; y += dy`.  Each statement is a step [draw, text, x, size, dy, add]:    *)
(* what is drawn at the cursor, the advance that follows, and what the       *)
(* statement adds to item_sum.  A drawn element is [op, text, x, y] in the   *)
(* coordinates of the surface it is drawn on; a cursor state is              *)
(* [ok, ops, y, sum].                                                        *)

Elem(op, text, x, y) == [op |-> op, text |-> text, x |-> x, y |-> y]

Step(draw, text, x, size, dy) ==
    [draw |-> draw, text |-> text, x |-> x, size |-> size, dy |-> dy, add |-> 0]
Skip(dy) == Step("skip", "", 0, 0, dy)
Raise == Step("raise", "", 0, 0, 0)

Fail(st) == [st EXCEPT !.ok = FALSE]

\* `payload.get("items", []) or []` followed by `for item in items`: the
\* sequence the loop walks.  A falsy value (absent, null, 0, "", {}, [])
\* becomes the empty list; a truthy number is not iterable; a string yields
\* its characters and a mapping its keys, none of which is a mapping.
NonMap == [k |-> "nonmap", name |-> Missing, quantity |-> Missing,
           unitPrice |-> Missing, total |-> Missing]

ItemsTruthy(x) ==
    CASE x.k \in {"missing", "null"} -> FALSE
      [] x.k \in {"int", "float"} -> x.v # 0
      [] x.k = "str" -> x.s # ""
      [] x.k = "dict" -> x.v > 0
      [] x.k = "list" -> Len(x.l) > 0


\* Faulty variant of IterItems: a value that is not a list is read as the empty list.
IterItems_lenient(x) ==
    IF ItemsTruthy(x) /\ x.k = "list" THEN [ok |-> TRUE, seq |-> x.l]
    ELSE [ok |-> TRUE, seq |-> <<>>]

IterItems(x) ==
    IF ~ItemsTruthy(x) THEN [ok |-> TRUE, seq |-> <<>>]
    ELSE CASE x.k = "list" -> [ok |-> TRUE, seq |-> x.l]
           [] x.k = "str" -> [ok |-> TRUE, seq |-> [i \in 1..Len(x.s) |-> NonMap]]
           [] x.k = "dict" -> [ok |-> TRUE, seq |-> [i \in 1..x.v |-> NonMap]]
           [] OTHER -> [ok |-> FALSE, seq |-> <<>>]

-----------------------------------------------------------------------------
(* build_receipt_image *)

width_px == 576
img_margin == 16
img_line_h == 28
img_temp_height == 4000
img_min_height == 800
font_large == 28
font_medium == 24
font_small == 22

\* draw.textbbox((0, 0), text, font)[2] - [0]: the advance width of the text,
\* taken as half the font size per character.
img_text_width(text, size) == Len(text) * (size \div 2)

\* draw_center, draw_left, draw_right and draw.line on the scratch image
draw_center(text, y, size) ==
    Elem("center", text, (width_px - img_text_width(text, size)) \div 2, y)
draw_left(text, x, y, size) == Elem("left", text, x, y)
draw_right(text, x_right, y, size) ==
    Elem("right", text, x_right - img_text_width(text, size), y)
img_line(y) == Elem("line", "", img_margin, y)

\* redraw_center, redraw_left, redraw_right and final_draw.line on the final image
redraw_center(text, y, size) ==
    Elem("center", text, (width_px - img_text_width(text, size)) \div 2, y)
redraw_left(text, x, y, size) == Elem("left", text, x, y)
redraw_right(text, x_right, y, size) ==
    Elem("right", text, x_right - img_text_width(text, size), y)
img_final_line(y) == Elem("line", "", img_margin, y)

\* Faulty variant of img_extract: the date is always the current date, whatever
\* the payload carries.
img_extract_today(p, today) ==
    [company_name |-> Get(p.companyName, StrV("Company Name")),
     company_address |-> Get(p.companyAddress, StrV("")),
     company_phone |-> Get(p.companyPhone, StrV("")),
     receipt_no |-> Get(p.receiptNo, StrV("-")),
     date |-> StrV(today),
     payment_method |-> Get(p.paymentMethod, StrV("-")),
     items |-> IterItems(p.items),
     total |-> Get(p.total, IntV(0)),
     paid_amount |-> Get(p.paidAmount, Get(p.total, IntV(0)))]

\* Data extraction, lines 98-106; today is datetime.now() as dd/mm/YYYY.
img_extract(p, today) ==
    [company_name |-> Get(p.companyName, StrV("Company Name")),
     company_address |-> Get(p.companyAddress, StrV("")),
     company_phone |-> Get(p.companyPhone, StrV("")),
     receipt_no |-> Get(p.receiptNo, StrV("-")),
     date |-> Get(p.date, StrV(today)),
     payment_method |-> Get(p.paymentMethod, StrV("-")),
     items |-> IterItems(p.items),
     total |-> Get(p.total, IntV(0)),
     paid_amount |-> Get(p.paidAmount, Get(p.total, IntV(0)))]

\* Header and info block of the measure pass, lines 136-169.
img_measure_head(d) ==
    <<Step("center", PyStr(d.company_name), 0, font_large, img_line_h)>>
    \o (IF Truthy(d.company_address)
        THEN <<Step("center", PyStr(d.company_address), 0, font_medium, img_line_h)>>
        ELSE <<>>)
    \o (IF Truthy(d.company_phone)
        THEN <<Step("center", "Phone: " \o PyStr(d.company_phone), 0, font_medium,
                    img_line_h)>>
        ELSE <<>>)
    \o <<Skip(6),
         Step("line", "", img_margin, 0, img_line_h),
         Step("left", "Receipt No:", img_margin, font_small, img_line_h),
         Step("left", PyStr(d.receipt_no), img_margin + 10, font_small, img_line_h + 4),
         Step("left", "Payment Method:", img_margin, font_small, img_line_h),
         Step("left", Upper(PyStr(d.payment_method)), img_margin + 10, font_small,
              img_line_h + 4),
         Step("left", "Date:", img_margin, font_small, img_line_h),
         Step("left", PyStr(d.date), img_margin + 10, font_small, img_line_h + 8),
         Step("line", "", img_margin, 0, img_line_h),
         Step("center", "ITEMS", 0, font_medium, img_line_h + 4)>>

\* What one item yields, lines 180-184 (275-279, 402-406, 490-494): not ok
\* when item.get, qty * price or the .2f format raises.
item_fields(item) ==
    IF item.k # "map" \/ ~Mul(Get(item.quantity, IntV(0)), Get(item.unitPrice, IntV(0))).ok
       \/ ~FormatSpec2f(Get(item.unitPrice, IntV(0))).ok
    THEN [ok |-> FALSE, name |-> "", meta |-> "", total_line |-> Null]
    ELSE [ok |-> TRUE,
          name |-> PyStr(Get(item.name, StrV(""))),
          meta |-> PyStr(Get(item.quantity, IntV(0))) \o " x "
                   \o FormatSpec2f(Get(item.unitPrice, IntV(0))).s \o " AED",
          total_line |-> Get(item.total,
                             Mul(Get(item.quantity, IntV(0)),
                                 Get(item.unitPrice, IntV(0))).val)]


\* Faulty variant of img_measure_item: the name line advances by a full line_h.
img_measure_item_tall(item, k) ==
    LET f == item_fields(item) IN
    IF ~f.ok THEN Raise
    ELSE CASE k = 1 -> Step("left", f.name, img_margin, font_small, img_line_h)
           [] k = 2 -> Step("left", f.meta, img_margin + 4, font_small, 0)
           [] k = 3 -> [Step("right", img_fmt_amount(f.total_line), width_px - img_margin,
                             font_small, img_line_h + 4)
                        EXCEPT !.add = IF ToFloat(f.total_line).ok
                                       THEN ToFloat(f.total_line).v ELSE 0]

\* The k-th statement (1..3) of the measure pass's loop body on one item,
\* lines 180-194; the last adds float(total_line) to item_sum when it converts.
img_measure_item(item, k) ==
    LET f == item_fields(item) IN
    IF ~f.ok THEN Raise
    ELSE CASE k = 1 -> Step("left", f.name, img_margin, font_small, img_line_h - 2)
           [] k = 2 -> Step("left", f.meta, img_margin + 4, font_small, 0)
           [] k = 3 -> [Step("right", img_fmt_amount(f.total_line), width_px - img_margin,
                             font_small, img_line_h + 4)
                        EXCEPT !.add = IF ToFloat(f.total_line).ok
                                       THEN ToFloat(f.total_line).v ELSE 0]

\* Items loop of the measure pass, lines 179-194.
img_measure_items(items) ==
    [j \in 1..(3 * Len(items)) |-> img_measure_item(items[(j + 2) \div 3], ((j - 1) % 3) + 1)]

\* Subtotal and VAT, lines 204-212.
img_subtotal(p, item_sum) ==
    IF p.subtotal.k \in {"missing", "null"} THEN FltV(item_sum) ELSE p.subtotal

img_vat(p, total, subtotal_val) ==
    IF p.vat.k \in {"missing", "null"}
    THEN IF ToFloat(total).ok /\ (~Truthy(subtotal_val) \/ ToFloat(subtotal_val).ok)
         THEN FltV(Max(ToFloat(total).v
                       - (IF Truthy(subtotal_val) THEN ToFloat(subtotal_val).v ELSE 0), 0))
         ELSE IntV(0)
    ELSE p.vat

\* Totals block of the measure pass, lines 197-226.
img_measure_totals(d, n, subtotal_val, vat_val) ==
    <<Skip(2),
      Step("line", "", img_margin, 0, img_line_h),
      Step("left", "Items count:", img_margin, font_small, 0),
      Step("right", ToString(n), width_px - img_margin, font_small, img_line_h),
      Step("left", "Subtotal:", img_margin, font_small, 0),
      Step("right", img_fmt_amount(subtotal_val), width_px - img_margin, font_small,
           img_line_h),
      Step("left", "VAT:", img_margin, font_small, 0),
      Step("right", img_fmt_amount(vat_val), width_px - img_margin, font_small,
           img_line_h),
      Step("left", "TOTAL:", img_margin, font_small, 0),
      Step("right", img_fmt_amount(d.total), width_px - img_margin, font_small,
           img_line_h),
      Step("left", "Paid amount:", img_margin, font_small, 0),
      Step("right", img_fmt_amount(d.paid_amount), width_px - img_margin, font_small,
           img_line_h + 10),
      Step("center", "Thank you for your purchase!", 0, font_small, 0)>>


\* Faulty variants of img_final_height: the floor forgotten; the height capped at the
\* scratch height.
img_final_height_nofloor(y) == y + img_margin + 10
img_final_height_capped(y) ==
    IF y + img_margin + 10 > img_temp_height THEN img_temp_height
    ELSE IF y + img_margin + 10 >= img_min_height THEN y + img_margin + 10
    ELSE img_min_height

\* final_height = max(y + margin + 10, 800), line 228
img_final_height(y) == Max(y + img_margin + 10, img_min_height)

\* Header and info block of the commit pass, lines 250-272.
img_commit_head(d) ==
    <<Step("center", PyStr(d.company_name), 0, font_large, img_line_h)>>
    \o (IF Truthy(d.company_address)
        THEN <<Step("center", PyStr(d.company_address), 0, font_medium, img_line_h)>>
        ELSE <<>>)
    \o (IF Truthy(d.company_phone)
        THEN <<Step("center", "Phone: " \o PyStr(d.company_phone), 0, font_medium,
                    img_line_h)>>
        ELSE <<>>)
    \o <<Skip(6),
         Step("line", "", img_margin, 0, img_line_h),
         Step("left", "Receipt No:", img_margin, font_small, img_line_h),
         Step("left", PyStr(d.receipt_no), img_margin + 10, font_small, img_line_h + 4),
         Step("left", "Payment Method:", img_margin, font_small, img_line_h),
         Step("left", Upper(PyStr(d.payment_method)), img_margin + 10, font_small,
              img_line_h + 4),
         Step("left", "Date:", img_margin, font_small, img_line_h),
         Step("left", PyStr(d.date), img_margin + 10, font_small, img_line_h + 8),
         Step("line", "", img_margin, 0, img_line_h),
         Step("center", "ITEMS", 0, font_medium, img_line_h + 4)>>

\* The k-th statement (1..3) of the commit pass's loop body on one item,
\* lines 275-284.
img_commit_item(item, k) ==
    LET f == item_fields(item) IN
    IF ~f.ok THEN Raise
    ELSE CASE k = 1 -> Step("left", f.name, img_margin, font_small, img_line_h - 2)
           [] k = 2 -> Step("left", f.meta, img_margin + 4, font_small, 0)
           [] k = 3 -> Step("right", img_fmt_amount(f.total_line), width_px - img_margin,
                            font_small, img_line_h + 4)

\* Items loop of the commit pass, lines 274-284.
img_commit_items(items) ==
    [j \in 1..(3 * Len(items)) |-> img_commit_item(items[(j + 2) \div 3], ((j - 1) % 3) + 1)]

\* Totals block of the commit pass, lines 286-304.
img_commit_totals(d, n, subtotal_val, vat_val) ==
    <<Skip(2),
      Step("line", "", img_margin, 0, img_line_h),
      Step("left", "Items count:", img_margin, font_small, 0),
      Step("right", ToString(n), width_px - img_margin, font_small, img_line_h),
      Step("left", "Subtotal:", img_margin, font_small, 0),
      Step("right", img_fmt_amount(subtotal_val), width_px - img_margin, font_small,
           img_line_h),
      Step("left", "VAT:", img_margin, font_small, 0),
      Step("right", img_fmt_amount(vat_val), width_px - img_margin, font_small,
           img_line_h),
      Step("left", "TOTAL:", img_margin, font_small, 0),
      Step("right", img_fmt_amount(d.total), width_px - img_margin, font_small,
           img_line_h),
      Step("left", "Paid amount:", img_margin, font_small, 0),
      Step("right", img_fmt_amount(d.paid_amount), width_px - img_margin, font_small,
           img_line_h + 10),
      Step("center", "Thank you for your purchase!", 0, font_small, 0)>>

-----------------------------------------------------------------------------
(* build_receipt_pdf *)

\* reportlab.lib.units.mm and one point, in model units of 1/127 pt
mm == 360
pt == 127

width_pt == 80 * mm
pdf_margin == 8 * pt
pdf_line_h == 14 * pt
pdf_temp_height == 1000 * mm
pdf_min_height == 100 * mm

\* cnv.stringWidth(text, "ArialUnicode", size): the advance width of the
\* text, taken as 64/127 of the font size per character.
pdf_text_width(text, size) == Len(text) * size * 64

\* draw_center, draw_left, draw_right of build_receipt_pdf and cnv.line; the
\* canvas argument is the pass that calls them.
pdf_draw_center(text, y, size) ==
    Elem("center", text, (width_pt - pdf_text_width(text, size)) \div 2, y)
pdf_draw_left(text, x, y, size) == Elem("left", text, x, y)
pdf_draw_right(text, x_right, y, size) ==
    Elem("right", text, x_right - pdf_text_width(text, size), y)
pdf_line(y) == Elem("line", "", pdf_margin, y)

\* Data extraction, lines 339-347.
pdf_extract(p, today) ==
    [company_name |-> Get(p.companyName, StrV("Company Name")),
     company_address |-> Get(p.companyAddress, StrV("")),
     company_phone |-> Get(p.companyPhone, StrV("")),
     receipt_no |-> Get(p.receiptNo, StrV("-")),
     date |-> Get(p.date, StrV(today)),
     payment_method |-> Get(p.paymentMethod, StrV("-")),
     items |-> IterItems(p.items),
     total |-> Get(p.total, IntV(0)),
     paid_amount |-> Get(p.paidAmount, Get(p.total, IntV(0)))]

\* A text handed to stringWidth or .upper() must be a str: anything else raises.
NeedStr(x, step) == IF x.k = "str" THEN step ELSE Raise

\* Header and info block of the measure pass, lines 372-399.
pdf_measure_head(d) ==
    <<NeedStr(d.company_name,
              Step("center", PyStr(d.company_name), 0, 12, -pdf_line_h))>>
    \o (IF Truthy(d.company_address)
        THEN <<NeedStr(d.company_address,
                       Step("center", PyStr(d.company_address), 0, 11, -pdf_line_h))>>
        ELSE <<>>)
    \o (IF Truthy(d.company_phone)
        THEN <<Step("center", "Phone: " \o PyStr(d.company_phone), 0, 11, -pdf_line_h)>>
        ELSE <<>>)
    \o <<Skip(-(4 * pt)),
         Step("line", "", pdf_margin, 0, -pdf_line_h),
         Step("left", "Receipt No:", pdf_margin, 10, -pdf_line_h),
         Step("left", PyStr(d.receipt_no), pdf_margin + 10 * pt, 10,
              -(pdf_line_h + 4 * pt)),
         Step("left", "Payment Method:", pdf_margin, 10, -pdf_line_h),
         NeedStr(d.payment_method,
                 Step("left", Upper(PyStr(d.payment_method)), pdf_margin + 10 * pt, 10,
                      -(pdf_line_h + 4 * pt))),
         Step("left", "Date:", pdf_margin, 10, -pdf_line_h),
         Step("left", PyStr(d.date), pdf_margin + 10 * pt, 10, -(pdf_line_h + 8 * pt)),
         Step("line", "", pdf_margin, 0, -pdf_line_h),
         Step("center", "ITEMS", 0, 11, -(pdf_line_h + 4 * pt))>>

\* The k-th statement (1..3) of the measure pass's loop body on one item,
\* lines 402-412.
pdf_measure_item(item, k) ==
    LET f == item_fields(item) IN
    IF ~f.ok THEN Raise
    ELSE CASE k = 1 -> Step("left", f.name, pdf_margin, 10, -(pdf_line_h - 2 * pt))
           [] k = 2 -> Step("left", f.meta, pdf_margin + 4 * pt, 10, 0)
           [] k = 3 -> Step("right", fmt_amount(f.total_line), width_pt - pdf_margin, 10,
                            -(pdf_line_h + 4 * pt))

\* Items loop of the measure pass, lines 401-412.
pdf_measure_items(items) ==
    [j \in 1..(3 * Len(items)) |-> pdf_measure_item(items[(j + 2) \div 3], ((j - 1) % 3) + 1)]


\* Faulty variant of pdf_item_sum_step: the item's own total is ignored.
pdf_item_sum_step_product(item, acc) ==
    IF ~acc.ok THEN acc
    ELSE IF item.k # "map"
            \/ ~Mul(Get(item.quantity, IntV(0)), Get(item.unitPrice, IntV(0))).ok
         THEN Raised
         ELSE Add(acc.val, Mul(Get(item.quantity, IntV(0)), Get(item.unitPrice, IntV(0))).val)

\* Body of the item_sum loop, lines 425-427, on the accumulator acc =
\* [ok, val]: not ok once the product or the addition raises.
pdf_item_sum_step(item, acc) ==
    IF ~acc.ok THEN acc
    ELSE IF item.k # "map"
            \/ ~Mul(Get(item.quantity, IntV(0)), Get(item.unitPrice, IntV(0))).ok
         THEN Raised
         ELSE Add(acc.val,
                  Get(item.total,
                      Mul(Get(item.quantity, IntV(0)), Get(item.unitPrice, IntV(0))).val))

\* item_sum of lines 423-427 over items[lo..hi], in order.  (Evaluated by
\* halving the range, which keeps the evaluation shallow.)
RECURSIVE pdf_item_sum(_, _, _, _)
pdf_item_sum(items, lo, hi, acc) ==
    IF lo > hi THEN acc
    ELSE IF lo = hi THEN pdf_item_sum_step(items[lo], acc)
    ELSE LET left == pdf_item_sum(items, lo, (lo + hi) \div 2, acc) IN
         IF ~left.ok THEN left
         ELSE pdf_item_sum(items, ((lo + hi) \div 2) + 1, hi, left)

\* Subtotal and VAT, lines 429-434; the VAT is [ok, val], not ok when
\* `total - float(subtotal_val or 0)` raises.
pdf_subtotal(p, item_sum) ==
    IF p.subtotal.k \in {"missing", "null"} THEN item_sum ELSE p.subtotal


\* Faulty variant of pdf_vat: the difference is not clamped at zero.
pdf_vat_unclamped(p, total, subtotal_val) ==
    IF p.vat.k \in {"missing", "null"}
    THEN IF IsNum(total) /\ (~Truthy(subtotal_val) \/ ToFloat(subtotal_val).ok)
         THEN [ok |-> TRUE,
               val |-> FltV(total.v - (IF Truthy(subtotal_val)
                                       THEN ToFloat(subtotal_val).v ELSE 0))]
         ELSE Raised
    ELSE [ok |-> TRUE, val |-> p.vat]

pdf_vat(p, total, subtotal_val) ==
    IF p.vat.k \in {"missing", "null"}
    THEN IF IsNum(total) /\ (~Truthy(subtotal_val) \/ ToFloat(subtotal_val).ok)
         THEN [ok |-> TRUE,
               val |-> FltV(Max(total.v - (IF Truthy(subtotal_val)
                                           THEN ToFloat(subtotal_val).v ELSE 0), 0))]
         ELSE Raised
    ELSE [ok |-> TRUE, val |-> p.vat]

\* Totals block of the measure pass, lines 415-448: no advance follows the
\* Items count row, so the Subtotal row is drawn at the same cursor.
pdf_measure_totals(d, n, subtotal_val, vat_val) ==
    <<Skip(-(2 * pt)),
      Step("line", "", pdf_margin, 0, -pdf_line_h),
      Step("left", "Items count:", pdf_margin, 10, 0),
      Step("right", ToString(n), width_pt - pdf_margin, 10, 0),
      Step("left", "Subtotal:", pdf_margin, 10, 0),
      Step("right", fmt_amount(subtotal_val), width_pt - pdf_margin, 10, -pdf_line_h),
      Step("left", "VAT:", pdf_margin, 10, 0),
      Step("right", fmt_amount(vat_val), width_pt - pdf_margin, 10, -pdf_line_h),
      Step("left", "TOTAL:", pdf_margin, 10, 0),
      Step("right", fmt_amount(d.total), width_pt - pdf_margin, 10, -pdf_line_h),
      Step("left", "Paid amount:", pdf_margin, 10, 0),
      Step("right", fmt_amount(d.paid_amount), width_pt - pdf_margin, 10,
           -(pdf_line_h + 10 * pt)),
      Step("center", "Thank you for your purchase!", 0, 10, 0)>>

\* used_height and final_height, lines 453-454
pdf_used_height(y) == pdf_temp_height - (y - pdf_margin)
pdf_final_height(y) == Max(pdf_used_height(y), pdf_min_height)

\* Header and info block of the commit pass, lines 464-487.
pdf_commit_head(d) ==
    <<NeedStr(d.company_name,
              Step("center", PyStr(d.company_name), 0, 12, -pdf_line_h))>>
    \o (IF Truthy(d.company_address)
        THEN <<NeedStr(d.company_address,
                       Step("center", PyStr(d.company_address), 0, 11, -pdf_line_h))>>
        ELSE <<>>)
    \o (IF Truthy(d.company_phone)
        THEN <<Step("center", "Phone: " \o PyStr(d.company_phone), 0, 11, -pdf_line_h)>>
        ELSE <<>>)
    \o <<Skip(-(4 * pt)),
         Step("line", "", pdf_margin, 0, -pdf_line_h),
         Step("left", "Receipt No:", pdf_margin, 10, -pdf_line_h),
         Step("left", PyStr(d.receipt_no), pdf_margin + 10 * pt, 10,
              -(pdf_line_h + 4 * pt)),
         Step("left", "Payment Method:", pdf_margin, 10, -pdf_line_h),
         NeedStr(d.payment_method,
                 Step("left", Upper(PyStr(d.payment_method)), pdf_margin + 10 * pt, 10,
                      -(pdf_line_h + 4 * pt))),
         Step("left", "Date:", pdf_margin, 10, -pdf_line_h),
         Step("left", PyStr(d.date), pdf_margin + 10 * pt, 10, -(pdf_line_h + 8 * pt)),
         Step("line", "", pdf_margin, 0, -pdf_line_h),
         Step("center", "ITEMS", 0, 11, -(pdf_line_h + 4 * pt))>>

\* The k-th statement (1..3) of the commit pass's loop body on one item,
\* lines 490-499.
pdf_commit_item(item, k) ==
    LET f == item_fields(item) IN
    IF ~f.ok THEN Raise
    ELSE CASE k = 1 -> Step("left", f.name, pdf_margin, 10, -(pdf_line_h - 2 * pt))
           [] k = 2 -> Step("left", f.meta, pdf_margin + 4 * pt, 10, 0)
           [] k = 3 -> Step("right", fmt_amount(f.total_line), width_pt - pdf_margin, 10,
                            -(pdf_line_h + 4 * pt))

\* Items loop of the commit pass, lines 489-499.
pdf_commit_items(items) ==
    [j \in 1..(3 * Len(items)) |-> pdf_commit_item(items[(j + 2) \div 3], ((j - 1) % 3) + 1)]

\* Totals block of the commit pass, lines 501-519.
pdf_commit_totals(d, n, subtotal_val, vat_val) ==
    <<Skip(-(2 * pt)),
      Step("line", "", pdf_margin, 0, -pdf_line_h),
      Step("left", "Items count:", pdf_margin, 10, 0),
      Step("right", ToString(n), width_pt - pdf_margin, 10, -pdf_line_h),
      Step("left", "Subtotal:", pdf_margin, 10, 0),
      Step("right", fmt_amount(subtotal_val), width_pt - pdf_margin, 10, -pdf_line_h),
      Step("left", "VAT:", pdf_margin, 10, 0),
      Step("right", fmt_amount(vat_val), width_pt - pdf_margin, 10, -pdf_line_h),
      Step("left", "TOTAL:", pdf_margin, 10, 0),
      Step("right", fmt_amount(d.total), width_pt - pdf_margin, 10, -pdf_line_h),
      Step("left", "Paid amount:", pdf_margin, 10, 0),
      Step("right", fmt_amount(d.paid_amount), width_pt - pdf_margin, 10,
           -(pdf_line_h + 10 * pt)),
      Step("center", "Thank you for your purchase!", 0, 10, 0)>>

-----------------------------------------------------------------------------
(* Running the statements of a pass. *)

\* The element a statement draws with the cursor at y, by the helpers of the
\* pass that executes it.
DrawOn(pass, step, y) ==
    CASE pass = "img_measure" ->
             (CASE step.draw = "center" -> draw_center(step.text, y, step.size)
                [] step.draw = "left" -> draw_left(step.text, step.x, y, step.size)
                [] step.draw = "right" -> draw_right(step.text, step.x, y, step.size)
                [] step.draw = "line" -> img_line(y))
      [] pass = "img_commit" ->
             (CASE step.draw = "center" -> redraw_center(step.text, y, step.size)
                [] step.draw = "left" -> redraw_left(step.text, step.x, y, step.size)
                [] step.draw = "right" -> redraw_right(step.text, step.x, y, step.size)
                [] step.draw = "line" -> img_final_line(y))
      [] pass \in {"pdf_measure", "pdf_commit"} ->
             (CASE step.draw = "center" -> pdf_draw_center(step.text, y, step.size)
                [] step.draw = "left" -> pdf_draw_left(step.text, step.x, y, step.size)
                [] step.draw = "right" -> pdf_draw_right(step.text, step.x, y, step.size)
                [] step.draw = "line" -> pdf_line(y))

\* One statement: draw at the cursor, advance it, add to item_sum; an
\* exception ends the pass.
RunStep(pass, step, st) ==
    IF ~st.ok THEN st
    ELSE IF step.draw = "raise" THEN Fail(st)
    ELSE [ok |-> TRUE,
          ops |-> IF step.draw = "skip" THEN st.ops
                  ELSE Append(st.ops, DrawOn(pass, step, st.y)),
          y |-> st.y + step.dy,
          sum |-> st.sum + step.add]

\* The statements steps[lo..hi] in order, from the cursor state st.
\* (Evaluated by halving the range, which keeps the evaluation shallow.)
RECURSIVE Run(_, _, _, _, _)
Run(pass, steps, lo, hi, st) ==
    IF lo > hi THEN st
    ELSE IF lo = hi THEN RunStep(pass, steps[lo], st)
    ELSE LET left == Run(pass, steps, lo, (lo + hi) \div 2, st) IN
         IF ~left.ok THEN left
         ELSE Run(pass, steps, ((lo + hi) \div 2) + 1, hi, left)

RunAll(pass, steps, st) == Run(pass, steps, 1, Len(steps), st)

Cursor(y) == [ok |-> TRUE, ops |-> <<>>, y |-> y, sum |-> 0]

\* The iteration itself raises when items is a truthy number.
IterOrRaise(d, steps) == IF d.items.ok THEN steps ELSE <<Raise>>

Measured(ok, st, start, surface, height, d, item_sum, subtotal_val, vat_val) ==
    [ok |-> ok, ops |-> st.ops, y |-> st.y, start |-> start, surface |-> surface,
     height |-> height, data |-> d, item_sum |-> item_sum,
     subtotal_val |-> subtotal_val, vat_val |-> vat_val]

\* The measure pass of build_receipt_image, lines 98-228: the elements drawn
\* on the scratch image, the cursor, the derived figures and the final height.
img_measure_body(d, p) ==
    LET it == RunAll("img_measure",
                     img_measure_head(d) \o IterOrRaise(d, img_measure_items(d.items.seq)),
                     Cursor(img_margin))
    IN  IF ~it.ok
        THEN Measured(FALSE, it, img_margin, img_temp_height, 0, d, it.sum, Null, Null)
        ELSE LET subtotal_val == img_subtotal(p, it.sum)
                 vat_val == img_vat(p, d.total, subtotal_val)
                 t == RunAll("img_measure",
                             img_measure_totals(d, Len(d.items.seq), subtotal_val, vat_val),
                             it)
             IN  Measured(TRUE, t, img_margin, img_temp_height, img_final_height(t.y),
                          d, it.sum, subtotal_val, vat_val)

img_measure(p, today) == img_measure_body(img_extract(p, today), p)

Committed(st, start, surface) ==
    [ok |-> st.ok, ops |-> st.ops, y |-> st.y, start |-> start, surface |-> surface]

\* The commit pass of build_receipt_image, lines 229-306, on the values the
\* measure pass m left in scope.
img_commit(m) ==
    Committed(RunAll("img_commit",
                     img_commit_head(m.data) \o img_commit_items(m.data.items.seq)
                     \o img_commit_totals(m.data, Len(m.data.items.seq), m.subtotal_val,
                                          m.vat_val),
                     Cursor(img_margin)),
              img_margin, m.height)

\* The measure pass of build_receipt_pdf, lines 339-454.
pdf_measure_body(d, p) ==
    LET y0 == pdf_temp_height - pdf_margin - 10 * pt
        it == RunAll("pdf_measure",
                     pdf_measure_head(d) \o IterOrRaise(d, pdf_measure_items(d.items.seq)),
                     Cursor(y0))
    IN  IF ~it.ok THEN Measured(FALSE, it, y0, pdf_temp_height, 0, d, 0, Null, Null)
        ELSE LET sum == pdf_item_sum(d.items.seq, 1, Len(d.items.seq),
                                     [ok |-> TRUE, val |-> IntV(0)])
             IN  IF ~sum.ok
                 THEN Measured(FALSE, it, y0, pdf_temp_height, 0, d, 0, Null, Null)
                 ELSE LET subtotal_val == pdf_subtotal(p, sum.val)
                          vat == pdf_vat(p, d.total, subtotal_val)
                      IN  IF ~vat.ok
                          THEN Measured(FALSE, it, y0, pdf_temp_height, 0, d, 0, Null,
                                        Null)
                          ELSE LET t == RunAll("pdf_measure",
                                               pdf_measure_totals(d, Len(d.items.seq),
                                                                  subtotal_val, vat.val),
                                               it)
                               IN  Measured(TRUE, t, y0, pdf_temp_height,
                                            pdf_final_height(t.y), d, sum.val.v,
                                            subtotal_val, vat.val)

pdf_measure(p, today) == pdf_measure_body(pdf_extract(p, today), p)

\* The commit pass of build_receipt_pdf, lines 457-535, on the values the
\* measure pass m left in scope.
pdf_commit(m) ==
    Committed(RunAll("pdf_commit",
                     pdf_commit_head(m.data) \o pdf_commit_items(m.data.items.seq)
                     \o pdf_commit_totals(m.data, Len(m.data.items.seq), m.subtotal_val,
                                          m.vat_val),
                     Cursor(m.height - pdf_margin - 10 * pt)),
              m.height - pdf_margin - 10 * pt, m.height)

-----------------------------------------------------------------------------
(* Requests: the payloads the handler is driven with. *)

MaxFreeItems == 2
MaxItems == 87

NoItems == [k |-> "missing", v |-> 0, s |-> "", l |-> <<>>]
ItemsNull == [k |-> "null", v |-> 0, s |-> "", l |-> <<>>]
ItemsNum(n) == [k |-> "int", v |-> n * 100, s |-> "", l |-> <<>>]
ItemsStr(t) == [k |-> "str", v |-> 0, s |-> t, l |-> <<>>]
ItemsDict(n) == [k |-> "dict", v |-> n, s |-> "", l |-> <<>>]
ItemsList(l) == [k |-> "list", v |-> 0, s |-> "", l |-> l]

Item(name, quantity, unitPrice, total) ==
    [k |-> "map", name |-> name, quantity |-> quantity, unitPrice |-> unitPrice,
     total |-> total]

Coffee == Item(StrV("Coffee"), IntV(2), FltV(500), Missing)

ItemVals ==
    {Coffee,
     Item(StrV("Tea"), IntV(1), FltV(350), FltV(300)),
     Item(StrV("Cake"), IntV(3), IntV(4), StrV("abc")),
     Item(StrV("Milk"), IntV(1), IntV(4), StrV("7.5")),
     Item(Missing, Missing, Missing, Missing),
     Item(StrV("Bun"), IntV(2), StrV("abc"), FltV(600)),
     Item(StrV("Jam"), StrV("3"), IntV(2), Missing),
     Item(Null, Null, Null, Null),
     Item(StrV("Pie"), IntV(1), FltV(200), Null),
     NonMap}

RECURSIVE SeqsUpTo(_, _)
SeqsUpTo(S, n) ==
    IF n = 0 THEN {<<>>}
    ELSE LET shorter == SeqsUpTo(S, n - 1) IN
         shorter \cup {Append(q, x) : q \in shorter, x \in S}

ItemCounts == {0, 1, 5, 50, 61, MaxItems}

Base ==
    [companyName |-> Missing, companyAddress |-> Missing, companyPhone |-> Missing,
     receiptNo |-> Missing, date |-> Missing, paymentMethod |-> Missing,
     items |-> NoItems, total |-> Missing, paidAmount |-> Missing,
     subtotal |-> Missing, vat |-> Missing, mode |-> Missing]

ModeVals == {Missing, StrV("pdf")}

\* Monetary fields in every combination, over short item lists.
MoneyPayloads ==
    {[Base EXCEPT !.total = t, !.paidAmount = pa, !.subtotal = st, !.vat = va,
                  !.items = ItemsList(l), !.mode = m] :
        t \in {Missing, Null, IntV(0), FltV(1155), StrV("abc")},
        pa \in {Missing, FltV(2000), StrV("abc")},
        st \in {Missing, Null, FltV(2000), StrV("10.5"), StrV("abc")},
        va \in {Missing, Null, FltV(-500), StrV("abc")},
        l \in {<<>>, <<Coffee>>,
               <<Coffee, Item(StrV("Tea"), IntV(1), FltV(350), FltV(300))>>},
        m \in ModeVals}

\* Header fields in every combination, over item lists of every length class.
LayoutPayloads ==
    {[Base EXCEPT !.companyName = cn, !.companyAddress = ca, !.companyPhone = cp,
                  !.receiptNo = rn, !.date = dt, !.paymentMethod = pm,
                  !.items = ItemsList([i \in 1..n |-> Coffee]),
                  !.total = FltV(1155), !.mode = m] :
        cn \in {Missing, Null},
        ca \in {Missing, StrV(""), StrV("12 Main St")},
        cp \in {Missing, StrV("555")},
        rn \in {Missing, IntV(42)},
        dt \in {Missing, StrV("01/02/2026")},
        pm \in {Missing, Null, StrV("cash")},
        n \in ItemCounts,
        m \in ModeVals \cup {StrV("PDF")}}

\* The items value in every shape, over a few totals.
ItemsPayloads ==
    {[Base EXCEPT !.items = it, !.total = t, !.mode = m] :
        it \in {NoItems, ItemsNull, ItemsNum(0), ItemsNum(5), ItemsStr(""),
                ItemsStr("abc"), ItemsDict(0), ItemsDict(1)}
               \cup {ItemsList(l) : l \in SeqsUpTo(ItemVals, MaxFreeItems)},
        t \in {Missing, FltV(1155)},
        m \in ModeVals}

Payloads == MoneyPayloads \cup LayoutPayloads \cup ItemsPayloads

\* datetime.now().strftime("%d/%m/%Y") at the time of the call
Dates == {"04/11/2026", "05/11/2026"}

-----------------------------------------------------------------------------
(* generate_receipt and print_receipt_escpos *)

NoPass == [ok |-> FALSE, ops |-> <<>>, y |-> 0, start |-> 0, surface |-> 0]
NoMeasure ==
    [ok |-> FALSE, ops |-> <<>>, y |-> 0, start |-> 0, surface |-> 0, height |-> 0,
     data |-> [company_name |-> Null, company_address |-> Null,
               company_phone |-> Null, receipt_no |-> Null, date |-> Null,
               payment_method |-> Null, items |-> [ok |-> FALSE, seq |-> <<>>],
               total |-> Null, paid_amount |-> Null],
     item_sum |-> 0, subtotal_val |-> Null, vat_val |-> Null]
NoPrinter == [acquired |-> FALSE, image |-> FALSE, cut |-> FALSE, closed |-> FALSE]

\* What an earlier call of a builder on the same payload returned; a request
\* has no earlier call.
NoPrior == [set |-> FALSE, mode |-> "", meas |-> NoMeasure, final |-> NoPass]

Init ==
    /\ payload \in Payloads
    /\ mode = ""
    /\ pc = "request"
    /\ meas = NoMeasure
    /\ final = NoPass
    /\ printer = NoPrinter
    /\ exc = "none"
    /\ response = "none"
    /\ prior = NoPrior

\* mode = str(data.get("mode") or request.args.get("mode") or "print").lower()
request_mode(data, arg) ==
    Lower(IF Truthy(data.mode) THEN PyStr(data.mode)
          ELSE IF Truthy(arg) THEN PyStr(arg) ELSE "print")

\* generate_receipt, lines 553-559 and 572: read the mode and enter a builder.
Dispatch ==
    /\ pc = "request"
    /\ \E arg \in {Missing, StrV("pdf")} : mode' = request_mode(payload, arg)
    /\ pc' = IF mode' = "pdf" THEN "pdf_measure" ELSE "img_measure"
    /\ UNCHANGED <<prior, payload, meas, final, printer, exc, response>>

\* build_receipt_pdf up to final_height; an exception leaves the function.
PdfMeasure ==
    /\ pc = "pdf_measure"
    /\ \E today \in Dates : meas' = pdf_measure(payload, today)
    /\ pc' = IF meas'.ok THEN "pdf_commit" ELSE "raised"
    /\ exc' = IF meas'.ok THEN exc ELSE "build"
    /\ UNCHANGED <<prior, payload, mode, final, printer, response>>

\* build_receipt_pdf from the final canvas to the returned bytes.
PdfCommit ==
    /\ pc = "pdf_commit"
    /\ final' = pdf_commit(meas)
    /\ pc' = IF final'.ok THEN "pdf_built" ELSE "raised"
    /\ exc' = IF final'.ok THEN exc ELSE "build"
    /\ UNCHANGED <<prior, payload, mode, meas, printer, response>>

\* generate_receipt, lines 561-569: the PDF bytes are the response.
RespondPdf ==
    /\ pc = "pdf_built"
    /\ response' = "pdf"
    /\ pc' = "done"
    /\ UNCHANGED <<prior, payload, mode, meas, final, printer, exc>>

\* build_receipt_image up to final_height.
ImgMeasure ==
    /\ pc = "img_measure"
    /\ \E today \in Dates : meas' = img_measure(payload, today)
    /\ pc' = IF meas'.ok THEN "img_commit" ELSE "raised"
    /\ exc' = IF meas'.ok THEN exc ELSE "build"
    /\ UNCHANGED <<prior, payload, mode, final, printer, response>>

\* build_receipt_image from the final image to the return.
ImgCommit ==
    /\ pc = "img_commit"
    /\ final' = img_commit(meas)
    /\ pc' = IF final'.ok THEN "img_built" ELSE "raised"
    /\ exc' = IF final'.ok THEN exc ELSE "build"
    /\ UNCHANGED <<prior, payload, mode, meas, printer, response>>

\* print_receipt_escpos, line 312: get_printer() returns a printer ...
GetPrinterOk ==
    /\ pc = "img_built"
    /\ printer' = [printer EXCEPT !.acquired = TRUE]
    /\ pc' = "printer_image"
    /\ UNCHANGED <<prior, payload, mode, meas, final, exc, response>>

\* ... or raises (python-escpos missing, unsupported or unreachable connection).
GetPrinterFails ==
    /\ pc = "img_built"
    /\ exc' = "get_printer"
    /\ pc' = "raised"
    /\ UNCHANGED <<prior, payload, mode, meas, final, printer, response>>

\* line 315: printer.image(img) hands the image to the printer ...
PrinterImageOk ==
    /\ pc = "printer_image"
    /\ printer' = [printer EXCEPT !.image = TRUE]
    /\ pc' = "printer_cut"
    /\ UNCHANGED <<prior, payload, mode, meas, final, exc, response>>

\* ... or raises before the image is sent; the finally block runs next.
PrinterImageFails ==
    /\ pc = "printer_image"
    /\ exc' = "image"
    /\ pc' = "printer_close"
    /\ UNCHANGED <<prior, payload, mode, meas, final, printer, response>>

\* line 317: printer.cut() sends the paper cut ...
PrinterCutOk ==
    /\ pc = "printer_cut"
    /\ printer' = [printer EXCEPT !.cut = TRUE]
    /\ pc' = "printer_close"
    /\ UNCHANGED <<prior, payload, mode, meas, final, exc, response>>

\* ... or raises (cut not supported, connection lost).
PrinterCutFails ==
    /\ pc = "printer_cut"
    /\ exc' = "cut"
    /\ pc' = "printer_close"
    /\ UNCHANGED <<prior, payload, mode, meas, final, printer, response>>

\* lines 318-323: finally, close the printer, swallowing its own errors; a
\* pending exception then leaves print_receipt_escpos.
PrinterClose ==
    /\ pc = "printer_close"
    /\ printer' = [printer EXCEPT !.closed = TRUE]
    /\ pc' = IF exc = "none" THEN "printed" ELSE "raised"
    /\ UNCHANGED <<prior, payload, mode, meas, final, exc, response>>

\* generate_receipt, line 573
RespondPrinted ==
    /\ pc = "printed"
    /\ response' = "printed"
    /\ pc' = "done"
    /\ UNCHANGED <<prior, payload, mode, meas, final, printer, exc>>

\* generate_receipt, lines 575-576: any exception becomes a 400 error answer.
RespondError ==
    /\ pc = "raised"
    /\ response' = "error"
    /\ pc' = "done"
    /\ UNCHANGED <<prior, payload, mode, meas, final, printer, exc>>

Next ==
    \/ Dispatch
    \/ PdfMeasure
    \/ PdfCommit
    \/ RespondPdf
    \/ ImgMeasure
    \/ ImgCommit
    \/ GetPrinterOk
    \/ GetPrinterFails
    \/ PrinterImageOk
    \/ PrinterImageFails
    \/ PrinterCutOk
    \/ PrinterCutFails
    \/ PrinterClose
    \/ RespondPrinted
    \/ RespondError

Spec == Init /\ [][Next]_vars

-----------------------------------------------------------------------------
(* The builders called directly: build_receipt_image (as by                *)
(* print_receipt_escpos, line 311) and build_receipt_pdf (as by            *)
(* generate_receipt, line 559), twice in a row on one payload, each call    *)
(* at its own current date.                                                *)

MaxCallItems == 5

\* The payloads of the requests up to MaxCallItems items; the builders do not
\* read the mode key.
CallPayloads ==
    {p \in Payloads : p.mode = Missing /\ Len(p.items.l) <= MaxCallItems}

InitCalls ==
    /\ payload \in CallPayloads
    /\ mode = ""
    /\ pc = "call"
    /\ meas = NoMeasure
    /\ final = NoPass
    /\ printer = NoPrinter
    /\ exc = "none"
    /\ response = "none"
    /\ prior = NoPrior

\* img = build_receipt_image(payload) or pdf = build_receipt_pdf(payload): a
\* fresh activation of the builder, with nothing kept from an earlier call.
CallBuilder ==
    /\ pc = "call"
    /\ \E m \in {"pdf", "print"} :
           /\ mode' = m
           /\ pc' = IF m = "pdf" THEN "pdf_measure" ELSE "img_measure"
    /\ meas' = NoMeasure
    /\ final' = NoPass
    /\ exc' = "none"
    /\ UNCHANGED <<prior, payload, printer, response>>

\* return final_img / return pdf_bytes, or the exception reaching the caller;
\* the caller keeps what the first call gave and calls again ...
BuilderReturns ==
    /\ pc \in {"pdf_built", "img_built", "raised"}
    /\ ~prior.set
    /\ prior' = [set |-> TRUE, mode |-> mode, meas |-> meas, final |-> final]
    /\ pc' = "call"
    /\ UNCHANGED <<payload, mode, meas, final, printer, exc, response>>

\* ... and holds both results once the second call is over.
BuilderReturnsAgain ==
    /\ pc \in {"pdf_built", "img_built", "raised"}
    /\ prior.set
    /\ pc' = "returned"
    /\ UNCHANGED <<prior, payload, mode, meas, final, printer, exc, response>>

NextCalls ==
    \/ CallBuilder
    \/ PdfMeasure
    \/ PdfCommit
    \/ ImgMeasure
    \/ ImgCommit
    \/ BuilderReturns
    \/ BuilderReturnsAgain

SpecCalls == InitCalls /\ [][NextCalls]_vars

-----------------------------------------------------------------------------
(* Properties. *)

IsPdf == mode = "pdf"
Delivered == response \in {"pdf", "printed"}
OutputProduced == response = "pdf" \/ printer.image

\* Distance the cursor of a pass travelled from its start.
Travel(pass) == Abs(pass.y - pass.start)

\* Offset of a drawn element from the top of the surface of its pass (the image
\* origin is the top, the PDF origin the bottom).
Offset(pass, e) == IF IsPdf THEN pass.surface - e.y ELSE e.y

\* Text drawn right after the label on the final surface.
Shown(label) ==
    final.ops[(CHOOSE i \in 1..Len(final.ops) : final.ops[i].text = label) + 1].text

\* The number an amount text "d.dd AED" shows, in hundredths.
AmountOf(text) == ParseFloat(SubSeq(text, 1, Len(text) - 4)).v

MinimumFloor == IF IsPdf THEN pdf_min_height ELSE img_min_height
ScratchHeight == IF IsPdf THEN pdf_temp_height ELSE img_temp_height
ItemCount == Len(meas.data.items.seq)
Absent(x) == x.k \in {"missing", "null"}

\* C1: the commit pass draws the same elements as the measure pass, each at
\* the same offset from the top and the same horizontal position, and its
\* cursor travels as far.
C1_PassesAgree ==
    final.ok =>
        /\ Len(final.ops) = Len(meas.ops)
        /\ \A i \in 1..Len(final.ops) :
               /\ final.ops[i].op = meas.ops[i].op
               /\ final.ops[i].text = meas.ops[i].text
               /\ final.ops[i].x = meas.ops[i].x
               /\ Offset(final, final.ops[i]) = Offset(meas, meas.ops[i])
        /\ Travel(final) = Travel(meas)

\* Top offset of the cursor start plus the travel of the commit pass plus the
\* bottom margin.
ConsumedExtent ==
    IF IsPdf THEN (pdf_margin + 10 * pt) + Travel(final) + pdf_margin
    ELSE img_margin + Travel(final) + (img_margin + 10)

\* C2: the final surface is max(consumed extent, minimum floor) high and every
\* element of the commit pass lies within its vertical bounds.
C2_FinalSurfaceFits ==
    final.ok =>
        /\ final.surface = Max(ConsumedExtent, MinimumFloor)
        /\ \A i \in 1..Len(final.ops) :
               final.ops[i].y >= 0 /\ final.ops[i].y <= final.surface

\* C3 as stated: the VAT shown is never negative, supplied or derived.
C3_VatNeverNegative == final.ok => AmountOf(Shown("VAT:")) >= 0

\* C3: a VAT derived because the payload gives none is never negative, and a
\* supplied VAT is shown as given.
C3_DerivedVatNeverNegative ==
    final.ok =>
        /\ Absent(payload.vat) => AmountOf(Shown("VAT:")) >= 0 /\ meas.vat_val.v >= 0
        /\ ~Absent(payload.vat) =>
               Shown("VAT:") = (IF ToFloat(payload.vat).ok
                                THEN Fmt2(ToFloat(payload.vat).v) ELSE "0.00") \o " AED"

\* A derived VAT was clamped: the total is below the subtotal.
C3_Witness ==
    /\ final.ok
    /\ Absent(payload.vat)
    /\ ToFloat(meas.data.total).ok /\ ToFloat(meas.subtotal_val).ok
    /\ ToFloat(meas.data.total).v < ToFloat(meas.subtotal_val).v
    /\ Shown("VAT:") = "0.00 AED"

\* What an item contributes to the item sum: its total if the key is present,
\* else quantity * unitPrice, as a number (zero when it is not one).
LineAmount(item) ==
    LET t == IF item.total.k = "missing"
             THEN Mul(Get(item.quantity, IntV(0)), Get(item.unitPrice, IntV(0))).val
             ELSE item.total
    IN  IF ToFloat(t).ok THEN ToFloat(t).v ELSE 0

RECURSIVE SumLines(_, _, _)
SumLines(items, lo, hi) ==
    IF lo > hi THEN 0
    ELSE IF lo = hi THEN LineAmount(items[lo])
    ELSE SumLines(items, lo, (lo + hi) \div 2) + SumLines(items, ((lo + hi) \div 2) + 1, hi)

MoneyShaped(x) == x.k \in {"missing", "int", "float", "str"}
BadNumber(x) == x.k = "str" /\ ~ParseFloat(x.s).ok
OnlyBadNumbers(p) ==
    /\ p.companyName.k \in {"missing", "str"}
    /\ p.companyAddress.k \in {"missing", "str"}
    /\ p.paymentMethod.k \in {"missing", "str"}
    /\ p.items.k = "list"
    /\ \A i \in 1..Len(p.items.l) :
           /\ p.items.l[i].k = "map"
           /\ p.items.l[i].quantity.k \in {"missing", "int", "float"}
           /\ MoneyShaped(p.items.l[i].unitPrice)
           /\ MoneyShaped(p.items.l[i].total)
    /\ MoneyShaped(p.total) /\ MoneyShaped(p.paidAmount)
    /\ MoneyShaped(p.subtotal) /\ MoneyShaped(p.vat)
    /\ \/ BadNumber(p.total) \/ BadNumber(p.paidAmount)
       \/ BadNumber(p.subtotal) \/ BadNumber(p.vat)
       \/ \E i \in 1..Len(p.items.l) :
              BadNumber(p.items.l[i].unitPrice) \/ BadNumber(p.items.l[i].total)

\* C5: a monetary field that is not a number never makes the request fail.
C5_BadNumberNeverFails == OnlyBadNumbers(payload) => exc # "build"

\* C6: the final surface is at least the minimum floor high.
C6_HeightAtLeastFloor ==
    /\ meas.ok => meas.height >= MinimumFloor
    /\ final.ok => final.surface >= MinimumFloor /\ final.surface = meas.height

\* A receipt shorter than the floor, built on a surface of the floor's height.
C6_Witness ==
    /\ final.ok
    /\ ~IsPdf
    /\ final.y + img_margin + 10 < img_min_height
    /\ final.surface = img_min_height

\* The cursor of the measure pass left the scratch surface.
Overflowed == IF IsPdf THEN meas.y < 0 ELSE meas.y > img_temp_height

\* C7 as stated: content that overflows the scratch surface fails the request
\* and yields no output.
C7_OverflowIsFatal ==
    (meas.ok /\ Overflowed) =>
        /\ ~OutputProduced
        /\ pc = "done" => response = "error"

\* C7: an overflow of the scratch surface is not detected; the build goes on,
\* the final surface is sized from the full cursor travel, taller than the
\* scratch surface, and the commit pass completes on it.
C7_OverflowNotDetected ==
    (meas.ok /\ Overflowed) =>
        /\ exc # "build"
        /\ meas.height = (IF IsPdf THEN (pdf_margin + 10 * pt) + Travel(meas) + pdf_margin
                          ELSE img_margin + Travel(meas) + img_margin + 10)
        /\ meas.height > ScratchHeight
        /\ pc \notin {"img_commit", "pdf_commit"} =>
               final.ok /\ final.surface = meas.height

\* A receipt whose measure pass overflowed was delivered.
C7_Witness == meas.ok /\ Overflowed /\ Delivered /\ ~IsPdf

TruthyNonSequence(x) ==
    \/ x.k \in {"int", "float", "str", "dict"} /\ ItemsTruthy(x)
    \/ x.k = "list" /\ \E i \in 1..Len(x.l) : x.l[i].k # "map"
FalsyNonSequence(x) == x.k \in {"int", "float", "str", "dict"} /\ ~ItemsTruthy(x)

\* C8 as stated: an items value that is no sequence of mappings, the falsy
\* forms included, fails the request without output.
C8_MalformedItemsRejected ==
    (TruthyNonSequence(payload.items) \/ FalsyNonSequence(payload.items)) =>
        /\ ~OutputProduced
        /\ pc = "done" => response = "error"

\* The fields other than items are absent or plain numbers.
OtherFieldsPlain(p) ==
    /\ \A x \in {p.companyName, p.companyAddress, p.companyPhone, p.receiptNo,
                 p.date, p.paymentMethod, p.paidAmount, p.subtotal, p.vat} :
           x.k = "missing"
    /\ p.total.k \in {"missing", "int", "float"}

\* C8: a truthy items value that is no sequence of mappings fails the request
\* without output; a falsy one (0, "", {}) is read as the empty list and
\* yields a receipt with an items count of 0.
C8_TruthyMalformedItemsRejected ==
    /\ TruthyNonSequence(payload.items) =>
           /\ ~OutputProduced
           /\ ~meas.ok /\ ~final.ok
           /\ pc \in {"raised", "done"} => exc = "build"
           /\ pc = "done" => response = "error"
    /\ FalsyNonSequence(payload.items) =>
           /\ meas.ok => ItemCount = 0
           /\ final.ok => Shown("Items count:") = "0"
           /\ OtherFieldsPlain(payload) => exc # "build"

\* An items value of 0, "" or {} yielded a receipt.
C8_Witness == FalsyNonSequence(payload.items) /\ Delivered

\* C9: an error answer means no output was produced; the image is built
\* before a printer is acquired; a printed answer means the image was sent and
\* then the paper cut.
C9_FailsAtomically ==
    /\ response = "error" => ~OutputProduced
    /\ printer.acquired => final.ok
    /\ printer.cut => printer.image
    /\ response = "printed" => printer.image /\ printer.cut

\* Optional header lines drawn: address, phone.
HeaderLines ==
    (IF Truthy(meas.data.company_address) THEN 1 ELSE 0)
    + (IF Truthy(meas.data.company_phone) THEN 1 ELSE 0)

\* C10 as stated: 54 px (30 pt) per item over a base that depends on the
\* header lines alone, and the floor for a receipt without items.
C10_HeightFormula54 ==
    final.ok =>
        /\ final.surface =
               (IF IsPdf THEN Max((272 + 14 * HeaderLines + 30 * ItemCount) * pt,
                                  pdf_min_height)
                ELSE Max(528 + 28 * HeaderLines + 54 * ItemCount, img_min_height))
        /\ ItemCount = 0 => final.surface = MinimumFloor

\* C10: the height is max(base + n * advance, floor) with an advance of 58 px
\* (30 pt) per item and a base of 528 px (272 pt) plus 28 px (14 pt) per
\* optional header line; without items that is the floor, except for a PDF
\* with an address or phone line, whose base exceeds the floor.
C10_HeightFormula ==
    final.ok =>
        /\ final.surface =
               (IF IsPdf THEN Max((272 + 14 * HeaderLines + 30 * ItemCount) * pt,
                                  pdf_min_height)
                ELSE Max(528 + 28 * HeaderLines + 58 * ItemCount, img_min_height))
        /\ (ItemCount = 0 /\ (~IsPdf \/ HeaderLines = 0)) => final.surface = MinimumFloor
        /\ (ItemCount = 0 /\ IsPdf /\ HeaderLines > 0) =>
               final.surface = (272 + 14 * HeaderLines) * pt /\ final.surface > MinimumFloor

\* A receipt of 50 items, above the floor.
C10_Witness ==
    /\ final.ok
    /\ ~IsPdf
    /\ ItemCount = 50
    /\ final.surface = 528 + 28 * HeaderLines + 58 * 50
    /\ final.surface > img_min_height



-----------------------------------------------------------------------------
(* Properties of the optional fields (Spec). *)

\* A field that is missing (absent or null) or a value of its kind.
TextOrMissing(x) == x.k \in {"missing", "null", "str"}
NumberOrMissing(x) == x.k \in {"missing", "null", "int", "float"}

\* A well-formed payload from which any subset of the optional fields and of
\* the item fields is missing.
MissingOnly(p) ==
    /\ \A x \in {p.companyName, p.companyAddress, p.companyPhone, p.receiptNo,
                 p.date, p.paymentMethod} : TextOrMissing(x)
    /\ \A x \in {p.total, p.paidAmount, p.subtotal, p.vat} : NumberOrMissing(x)
    /\ p.items.k \in {"missing", "null", "list"}
    /\ \A i \in 1..Len(p.items.l) :
           /\ p.items.l[i].k = "map"
           /\ TextOrMissing(p.items.l[i].name)
           /\ NumberOrMissing(p.items.l[i].quantity)
           /\ NumberOrMissing(p.items.l[i].unitPrice)
           /\ NumberOrMissing(p.items.l[i].total)

\* The value of a field, or the stated default when it is missing.
OrDefault(x, d) == IF Absent(x) THEN d ELSE x

\* Position of the ITEMS heading among the drawn elements; the rows of item i
\* are the three elements 3 * i - 2 .. 3 * i after it.
ItemsHeading == CHOOSE i \in 1..Len(final.ops) : final.ops[i].text = "ITEMS"

\* quantity * unitPrice of an item, each 0 when missing, as an amount text.
DerivedTotalText(item) ==
    Fmt2(Mul(OrDefault(item.quantity, IntV(0)), OrDefault(item.unitPrice, IntV(0))).val.v)
    \o " AED"

\* C12: a payload from which optional fields are missing (absent or null)
\* never fails to build, and the receipt shows "-" for a missing receiptNo or
\* paymentMethod, the total for a missing paidAmount, and quantity *
\* unitPrice for a missing item total.
C12_MissingFieldsNeverFail ==
    MissingOnly(payload) =>
        /\ exc # "build"
        /\ final.ok =>
               /\ Absent(payload.receiptNo) => Shown("Receipt No:") = "-"
               /\ Absent(payload.paymentMethod) => Shown("Payment Method:") = "-"
               /\ Absent(payload.paidAmount) => Shown("Paid amount:") = Shown("TOTAL:")
               /\ \A i \in 1..Len(payload.items.l) :
                      Absent(payload.items.l[i].total) =>
                          final.ops[ItemsHeading + 3 * i].text
                              = DerivedTotalText(payload.items.l[i])

-----------------------------------------------------------------------------
(* Properties of two calls in a row (SpecCalls). *)

\* Both calls are over and went to the same builder.
SameBuilderTwice == pc = "returned" /\ prior.set /\ prior.mode = mode

\* The text of the date row as each call drew it.
DateText(m) == PyStr(m.data.date)

\* C11 as stated: two calls of one builder on one payload give identical
\* output (outcome, height, drawn elements and positions), whatever the
\* payload leaves out.
C11_Idempotent == SameBuilderTwice => prior.final = final

\* C11: two calls of one builder on one payload give identical output when
\* the payload carries a date or both calls run on the same day; otherwise
\* they agree on outcome, height and every element and position, and differ
\* only in the date row, which shows the day of each call.
C11_IdempotentUpToDate ==
    SameBuilderTwice =>
        /\ (payload.date # Missing \/ prior.meas.data.date = meas.data.date)
               => prior.final = final
        /\ payload.date # Missing => prior.meas.data.date = meas.data.date
        /\ prior.final.ok = final.ok
        /\ prior.final.surface = final.surface
        /\ prior.meas.height = meas.height
        /\ Len(prior.final.ops) = Len(final.ops)
        /\ \A i \in 1..Len(final.ops) :
               /\ prior.final.ops[i].op = final.ops[i].op
               /\ prior.final.ops[i].x = final.ops[i].x
               /\ prior.final.ops[i].y = final.ops[i].y
               /\ prior.final.ops[i].text # final.ops[i].text =>
                      /\ payload.date = Missing
                      /\ prior.final.ops[i].text = DateText(prior.meas)
                      /\ final.ops[i].text = DateText(meas)

\* Two successful calls on a payload without a date, on different days: the
\* same height, another date row.
C11_Witness ==
    /\ SameBuilderTwice
    /\ payload.date = Missing
    /\ prior.final.ok /\ final.ok
    /\ DateText(prior.meas) # DateText(meas)
    /\ prior.final.surface = final.surface
    /\ prior.final # final

\* Both calls are over and went to different builders.
BothBuilders == pc = "returned" /\ prior.set /\ prior.mode # mode

\* Text drawn right after the label by a commit pass.
ShownOn(pass, label) ==
    pass.ops[(CHOOSE i \in 1..Len(pass.ops) : pass.ops[i].text = label) + 1].text

\* Amount drawn on the row of item i by a commit pass.
ItemTotalOn(pass, i) ==
    pass.ops[(CHOOSE j \in 1..Len(pass.ops) : pass.ops[j].text = "ITEMS") + 3 * i].text

\* C13: on one payload build_receipt_pdf and build_receipt_image both succeed
\* or both fail, and when they succeed they show the same items count, item
\* totals, subtotal, VAT, total and paid amount.
C13_EntryPointsAgree ==
    BothBuilders =>
        /\ prior.final.ok = final.ok
        /\ (prior.final.ok /\ final.ok) =>
               /\ \A label \in {"Items count:", "Subtotal:", "VAT:", "TOTAL:",
                                "Paid amount:"} :
                      ShownOn(prior.final, label) = ShownOn(final, label)
               /\ \A i \in 1..Len(meas.data.items.seq) :
                      ItemTotalOn(prior.final, i) = ItemTotalOn(final, i)

=============================================================================
